---- MODULE Spec2Model ----
(***************************************************************************)
(* A model of peek (src/src/bin/fp.rs): the heuristic highlighter          *)
(* highlight_line, the render/input loop run_app and the terminal          *)
(* bracketing done by main.                                                *)
(*                                                                         *)
(* A char is a one-character string; a string (&str, String) is a sequence *)
(* of chars together with its UTF-8 encoding, a sequence of bytes          *)
(* <<char, k>> (the k-th byte of char).  An Option<T> is a sequence of     *)
(* length at most one: <<>> is None, <<x>> is Some(x).                     *)
(***************************************************************************)
EXTENDS Integers, Sequences, FiniteSets, TLC

\* ------------------------------------------------------------------ bounds
\* Longest line given to highlight_line.
MaxLen == 3
\* Largest file, in lines.
MaxLines == 4
\* Largest small terminal height, in rows.
MaxHeight == 4
\* Width of usize in bits (the model's machine word).
UsizeBits == 16

Min(a, b) == IF a <= b THEN a ELSE b
Max(a, b) == IF a >= b THEN a ELSE b

RECURSIVE Pow2(_)
Pow2(n) == IF n = 0 THEN 1 ELSE 2 * Pow2(n - 1)
USIZE_MAX == Pow2(UsizeBits) - 1

\* --------------------------------------------------------- usize arithmetic
saturating_sub(a, b) == IF a >= b THEN a - b ELSE 0
saturating_add(a, b) == IF a + b > USIZE_MAX THEN USIZE_MAX ELSE a + b
\* a - b in a build without overflow checks
wrapping_sub(a, b) == (a - b) % (USIZE_MAX + 1)

\* ------------------------------------------------------------------ Option
None == <<>>
Some(x) == <<x>>
unwrap_or(o, d) == IF o = None THEN d ELSE o[1]

\* ------------------------------------------------------------------- chars
AsciiLower == {"a","b","c","d","e","f","g","h","i","j","k","l","m",
               "n","o","p","q","r","s","t","u","v","w","x","y","z"}
AsciiUpper == {"A","B","C","D","E","F","G","H","I","J","K","L","M",
               "N","O","P","Q","R","S","T","U","V","W","X","Y","Z"}
AsciiDigit == {"0","1","2","3","4","5","6","7","8","9"}
\* Non-ASCII chars of the model: a two-byte letter and a three-byte symbol.
TwoByteLetters == {"é"}
ThreeByteSymbols == {"€"}

is_whitespace(c) == c \in {" ", "\t"}
is_alphabetic(c) == c \in AsciiLower \cup AsciiUpper \cup TwoByteLetters
is_ascii_digit(c) == c \in AsciiDigit
is_alphanumeric(c) == is_alphabetic(c) \/ c \in AsciiDigit

\* char::len_utf8
len_utf8(c) == IF c \in TwoByteLetters THEN 2
               ELSE IF c \in ThreeByteSymbols THEN 3 ELSE 1

\* The UTF-8 bytes of a string, in order: byte k of char c is <<c, k>>.
RECURSIVE Utf8(_)
Utf8(s) == IF s = <<>> THEN <<>>
           ELSE [k \in 1..len_utf8(Head(s)) |-> <<Head(s), k>>] \o Utf8(Tail(s))

\* str::is_char_boundary: offset 0, the end, or the first byte of a char.
is_char_boundary(bytes, off) ==
    \/ off = 0
    \/ off = Len(bytes)
    \/ off < Len(bytes) /\ bytes[off + 1][2] = 1

\* The chars of a well-formed byte sequence (one per leading byte).
RECURSIVE Utf8Decode(_)
Utf8Decode(bytes) ==
    IF bytes = <<>> THEN <<>>
    ELSE IF Head(bytes)[2] = 1 THEN <<Head(bytes)[1]>> \o Utf8Decode(Tail(bytes))
    ELSE Utf8Decode(Tail(bytes))

\* &line[off..]: a slice by BYTE offset.  It panics when off is past the end
\* or falls inside a char; otherwise it is the chars from that byte on.
SliceFrom(line, off) ==
    LET bytes == Utf8(line) IN
    IF off > Len(bytes) \/ ~is_char_boundary(bytes, off)
    THEN [panic |-> TRUE, text |-> <<>>]
    ELSE [panic |-> FALSE, text |-> Utf8Decode(SubSeq(bytes, off + 1, Len(bytes)))]

\* ------------------------------------------------------------------ styles
DRACULA_FG == "DRACULA_FG"
DRACULA_COMMENT == "DRACULA_COMMENT"
DRACULA_PURPLE == "DRACULA_PURPLE"
DRACULA_CYAN == "DRACULA_CYAN"
DRACULA_ORANGE == "DRACULA_ORANGE"

\* Style::default(): no colour, no modifier.
StyleDefault == [fg |-> "unset", bold |-> FALSE, italic |-> FALSE]
Span(text, style) == [text |-> text, style |-> style]

is_keyword(word) ==
    word \in { <<"f","n">>, <<"l","e","t">>, <<"m","u","t">>,
               <<"c","o","n","s","t">>, <<"s","t","r","u","c","t">>,
               <<"e","n","u","m">>, <<"i","m","p","l">>,
               <<"t","r","a","i","t">>, <<"p","u","b">>, <<"u","s","e">>,
               <<"i","f">>, <<"e","l","s","e">>, <<"m","a","t","c","h">>,
               <<"f","o","r">>, <<"w","h","i","l","e">>, <<"l","o","o","p">>,
               <<"r","e","t","u","r","n">>, <<"b","r","e","a","k">>,
               <<"c","o","n","t","i","n","u","e">>, <<"t","r","u","e">>,
               <<"f","a","l","s","e">>, <<"N","o","n","e">>,
               <<"S","o","m","e">>, <<"O","k">>, <<"E","r","r">> }

is_type(word) ==
    word \in { <<"S","t","r","i","n","g">>, <<"V","e","c">>,
               <<"O","p","t","i","o","n">>, <<"R","e","s","u","l","t">>,
               <<"i","3","2">>, <<"u","6","4">>, <<"f","6","4">>,
               <<"b","o","o","l">>, <<"c","h","a","r">>,
               <<"u","s","i","z","e">>, <<"P","a","t","h","B","u","f">> }

\* word.parse::<f64>().is_ok() for a word of alphanumerics and underscores:
\* digits, digits e|E digits, or inf / infinity / nan in any letter case.
ToLower(c) ==
    IF c \in AsciiUpper
    THEN CHOOSE l \in AsciiLower :
           <<c, l>> \in { <<"A","a">>, <<"B","b">>, <<"C","c">>, <<"D","d">>,
             <<"E","e">>, <<"F","f">>, <<"G","g">>, <<"H","h">>, <<"I","i">>,
             <<"J","j">>, <<"K","k">>, <<"L","l">>, <<"M","m">>, <<"N","n">>,
             <<"O","o">>, <<"P","p">>, <<"Q","q">>, <<"R","r">>, <<"S","s">>,
             <<"T","t">>, <<"U","u">>, <<"V","v">>, <<"W","w">>, <<"X","x">>,
             <<"Y","y">>, <<"Z","z">> }
    ELSE c
AllDigits(s) == s # <<>> /\ \A k \in 1..Len(s) : s[k] \in AsciiDigit
parses_f64(word) ==
    LET low == [k \in 1..Len(word) |-> ToLower(word[k])] IN
    \/ AllDigits(word)
    \/ \E k \in 2..(Len(word) - 1) :
          /\ low[k] = "e"
          /\ AllDigits(SubSeq(word, 1, k - 1))
          /\ AllDigits(SubSeq(word, k + 1, Len(word)))
    \/ low \in { <<"i","n","f">>, <<"n","a","n">>,
                 <<"i","n","f","i","n","i","t","y">> }

\* (mutant) the number check also sets bold, like the keyword check
WordStyle_NumberBold(word) ==
    LET s0 == [fg |-> DRACULA_FG, bold |-> FALSE, italic |-> FALSE]
        s1 == IF is_keyword(word) THEN [s0 EXCEPT !.fg = DRACULA_PURPLE, !.bold = TRUE] ELSE s0
        s2 == IF is_type(word) THEN [s1 EXCEPT !.fg = DRACULA_CYAN] ELSE s1
        s3 == IF parses_f64(word) THEN [s2 EXCEPT !.fg = DRACULA_ORANGE, !.bold = TRUE] ELSE s2
    IN s3
\* The three successive, overriding checks of the word branch.
WordStyle(word) ==
    LET s0 == [fg |-> DRACULA_FG, bold |-> FALSE, italic |-> FALSE]
        s1 == IF is_keyword(word) THEN [s0 EXCEPT !.fg = DRACULA_PURPLE, !.bold = TRUE] ELSE s0
        s2 == IF is_type(word) THEN [s1 EXCEPT !.fg = DRACULA_CYAN] ELSE s1
        s3 == IF parses_f64(word) THEN [s2 EXCEPT !.fg = DRACULA_ORANGE] ELSE s2
    IN s3

CommentStyle == [fg |-> DRACULA_COMMENT, bold |-> FALSE, italic |-> TRUE]
SymbolStyle == [fg |-> DRACULA_FG, bold |-> FALSE, italic |-> FALSE]

\* ------------------------------------------------------- highlight_line
\* The comment test at char index i (0-based) of chars.
IsCommentStart(chars, i) ==
    LET c == chars[i + 1] IN
    \/ c = "/" /\ i + 1 < Len(chars) /\ chars[i + 2] = "/"
    \/ c = "#"
    \/ c = "/" /\ i + 1 < Len(chars) /\ chars[i + 2] = "*"

IsWordStart(c) == is_alphabetic(c) \/ c = "_" \/ is_ascii_digit(c)

\* The inner while loop: the first index >= i that does not continue a word.
RECURSIVE WordEnd(_, _)
WordEnd(chars, i) ==
    IF i < Len(chars) /\ (is_alphanumeric(chars[i + 1]) \/ chars[i + 1] = "_")
    THEN WordEnd(chars, i + 1)
    ELSE i

\* One iteration of the scan loop at char index i < len: the next index, the
\* spans so far, and how the iteration ended (next / break / panic).
ScanStep(line, i, spans) ==
    LET chars == line
        c == chars[i + 1]
    IN
    IF IsCommentStart(chars, i) THEN
        \* the char index i is used as a byte offset into line
        LET comment == SliceFrom(line, i) IN
        IF comment.panic
        THEN [how |-> "panic", i |-> i, spans |-> spans]
        ELSE [how |-> "break", i |-> i,
              spans |-> Append(spans, Span(comment.text, CommentStyle))]
    ELSE IF is_whitespace(c) THEN
        [how |-> "next", i |-> i + 1, spans |-> Append(spans, Span(<<c>>, StyleDefault))]
    ELSE IF IsWordStart(c) THEN
        LET end == WordEnd(chars, i + 1)
            word == SubSeq(chars, i + 1, end)
        IN [how |-> "next", i |-> end, spans |-> Append(spans, Span(word, WordStyle(word)))]
    ELSE
        [how |-> "next", i |-> i + 1, spans |-> Append(spans, Span(<<c>>, SymbolStyle))]

\* Line::from(&str): one raw span per text line of the string, none for "".
LineFromStr(line) == IF line = <<>> THEN <<>> ELSE <<Span(line, StyleDefault)>>

\* The value returned after the loop.
FinishLine(line, spans) == IF spans = <<>> THEN LineFromStr(line) ELSE spans

\* highlight_line as a function of the line: whether it panics, else its spans.
RECURSIVE ScanFrom(_, _, _)
ScanFrom(line, i, spans) ==
    IF i >= Len(line) THEN [panic |-> FALSE, spans |-> FinishLine(line, spans)]
    ELSE LET r == ScanStep(line, i, spans) IN
         IF r.how = "panic" THEN [panic |-> TRUE, spans |-> <<>>]
         ELSE IF r.how = "break" THEN [panic |-> FALSE, spans |-> FinishLine(line, r.spans)]
         ELSE ScanFrom(line, r.i, r.spans)
highlight_line(line) == ScanFrom(line, 0, <<>>)

\* ------------------------------------------------------------------- state
VARIABLES
    pc,           \* where main is: parse .. exit (draw / read_event inside run_app)
    cli_lines,    \* --lines as given on the command line (None when absent)
    cli_start,    \* --start-line as given on the command line (None when absent)
    args_lines,   \* Args::lines after parsing
    args_start,   \* Args::start_line after parsing
    debug_build,  \* TRUE when the build checks integer overflow
    total_lines,  \* file_lines.len()
    bad_line,     \* Some(index of the one non-ASCII line of the file), or None
    scroll,       \* run_app's scroll
    height,       \* the terminal's current height in rows
    frame,        \* Some(the frame last drawn), None before the first one
    last_event,   \* the event the input step read, until the next frame is drawn
    res,          \* what run_app returned: "none", "ok" or "err"
    io_err,       \* the collaborator call that returned an error ("none" if none did)
    raw_mode,     \* the terminal is in raw mode
    alt_screen,   \* the terminal shows the alternate screen
    exit_status,  \* "running", then how the process ended: "ok", "err", "panic"
    prev_jump,    \* Some(the jump key pressed last, the scroll and terminal height
                  \* of that press, how often it was pressed in a row), None once
                  \* another event is read or the terminal is resized
    hl_pc,        \* highlight_line: "off", "scan", "end", "done", "panic"
    hl_line,      \* highlight_line's argument
    hl_i,         \* its char index i
    hl_spans      \* its spans vector

main_vars == <<pc, cli_lines, cli_start, args_lines, args_start, debug_build,
               total_lines, bad_line, scroll, height, frame, last_event, res,
               io_err, raw_mode, alt_screen, exit_status, prev_jump>>
hl_vars == <<hl_pc, hl_line, hl_i, hl_spans>>
vars == <<main_vars, hl_vars>>

\* ----------------------------------------------------------- input domains
\* default_value of --lines
DefaultLines == 70

Alphabet == {"/", "*", "#", " ", "_", "=", "f", "n", "i", "e", "6", "4", "é", "€"}
Lines == UNION { [1..n -> Alphabet] : n \in 0..MaxLen }

CliLines == {None, Some(MaxLines - 2)}
CliStart == {None, Some(0), Some(MaxLines)}
FileSizes == 0..MaxLines
Heights == (0..MaxHeight) \cup {DefaultLines + 3}
Events == {"q", "Esc", "j", "Down", "k", "Up", "PageDown", "PageUp", "g", "G",
           "x", "release", "non_key"}

\* The file's lines: plain ASCII, but for the line at bad_line.
PlainLine == <<"f", "n", " ", "6">>
BadLine == <<"é", " ", "#">>
file_line(bad, i) == IF bad = Some(i) THEN BadLine ELSE PlainLine

\* ------------------------------------------------------ highlighter steps
HlIdle == hl_pc = "off" /\ hl_line = <<>> /\ hl_i = 0 /\ hl_spans = <<>>

\* The loop test of line 50.
HlLoopTest(i, line) == IF i < Len(line) THEN "scan" ELSE "end"

HlApply(r) ==
    /\ hl_i' = r.i
    /\ hl_spans' = r.spans
    /\ hl_pc' = IF r.how = "panic" THEN "panic"
                ELSE IF r.how = "break" THEN "end"
                ELSE HlLoopTest(r.i, hl_line)
    /\ UNCHANGED <<hl_line, main_vars>>

HlComment ==
    /\ hl_pc = "scan"
    /\ IsCommentStart(hl_line, hl_i)
    /\ HlApply(ScanStep(hl_line, hl_i, hl_spans))

HlWhitespace ==
    /\ hl_pc = "scan"
    /\ ~IsCommentStart(hl_line, hl_i)
    /\ is_whitespace(hl_line[hl_i + 1])
    /\ HlApply(ScanStep(hl_line, hl_i, hl_spans))

HlWord ==
    /\ hl_pc = "scan"
    /\ ~IsCommentStart(hl_line, hl_i)
    /\ ~is_whitespace(hl_line[hl_i + 1])
    /\ IsWordStart(hl_line[hl_i + 1])
    /\ HlApply(ScanStep(hl_line, hl_i, hl_spans))

HlSymbol ==
    /\ hl_pc = "scan"
    /\ ~IsCommentStart(hl_line, hl_i)
    /\ ~is_whitespace(hl_line[hl_i + 1])
    /\ ~IsWordStart(hl_line[hl_i + 1])
    /\ HlApply(ScanStep(hl_line, hl_i, hl_spans))

HlFinish ==
    /\ hl_pc = "end"
    /\ hl_spans' = FinishLine(hl_line, hl_spans)
    /\ hl_pc' = "done"
    /\ UNCHANGED <<hl_line, hl_i, main_vars>>

MainIdle ==
    /\ pc = "off" /\ cli_lines = None /\ cli_start = None
    /\ args_lines = None /\ args_start = None /\ debug_build = TRUE
    /\ total_lines = 0 /\ bad_line = None /\ scroll = 0 /\ height = 0
    /\ frame = None /\ last_event = "none" /\ res = "none" /\ io_err = "none"
    /\ raw_mode = FALSE /\ alt_screen = FALSE /\ exit_status = "running"
    /\ prev_jump = None

InitHL ==
    /\ MainIdle
    /\ hl_line \in Lines
    /\ hl_i = 0
    /\ hl_spans = <<>>
    /\ hl_pc = HlLoopTest(0, hl_line)

NextHL == HlComment \/ HlWhitespace \/ HlWord \/ HlSymbol \/ HlFinish

SpecHL == InitHL /\ [][NextHL]_vars

\* ------------------------------------------------------------------- main
\* What clap makes of --lines: the option has default_value "70", so the
\* parsed value is Some even when the option is absent.
\* (mutant) --lines without its default value
ClapLines_NoDefault(given) == given
ClapLines(given) == IF given = None THEN Some(DefaultLines) ELSE given
ClapStart(given) == given

\* The process ends: by returning from main ("ok" / "err") or by a panic.
Exit(status) ==
    /\ pc' = "exit"
    /\ exit_status' = status

\* A collaborator call returns an error and main returns it with `?`.
MainFault(call) ==
    /\ io_err' = call
    /\ Exit("err")

Parse ==
    /\ pc = "parse"
    /\ args_lines' = ClapLines(cli_lines)
    /\ args_start' = ClapStart(cli_start)
    /\ pc' = "read_file"
    /\ UNCHANGED <<cli_lines, cli_start, debug_build, total_lines, bad_line,
                   scroll, height, frame, last_event, res, io_err, raw_mode,
                   alt_screen, exit_status, prev_jump, hl_vars>>

\* (mutant) the file is read but an empty one is not turned away
ReadFile_NoEmptyCheck ==
    /\ pc = "read_file"
    /\ \/ /\ MainFault("read_file")
          /\ UNCHANGED <<total_lines, bad_line>>
       \/ \E n \in FileSizes : \E bad \in {None, Some(n - 1)} :
             /\ n = 0 => bad = None
             /\ total_lines' = n
             /\ bad_line' = bad
             /\ pc' = "enable_raw" /\ UNCHANGED <<exit_status, io_err>>
    /\ UNCHANGED <<cli_lines, cli_start, args_lines, args_start, debug_build,
                   scroll, height, frame, last_event, res, raw_mode,
                   alt_screen, prev_jump, hl_vars>>
\* read_to_string(..)?.lines().collect(), then the empty-file return.
ReadFile ==
    /\ pc = "read_file"
    /\ \/ /\ MainFault("read_file")
          /\ UNCHANGED <<total_lines, bad_line>>
       \/ \E n \in FileSizes : \E bad \in {None, Some(n - 1)} :
             /\ n = 0 => bad = None
             /\ total_lines' = n
             /\ bad_line' = bad
             /\ IF n = 0
                THEN Exit("ok") /\ UNCHANGED io_err
                ELSE pc' = "enable_raw" /\ UNCHANGED <<exit_status, io_err>>
    /\ UNCHANGED <<cli_lines, cli_start, args_lines, args_start, debug_build,
                   scroll, height, frame, last_event, res, raw_mode,
                   alt_screen, prev_jump, hl_vars>>

EnableRaw ==
    /\ pc = "enable_raw"
    /\ \/ MainFault("enable_raw_mode") /\ UNCHANGED raw_mode
       \/ raw_mode' = TRUE /\ pc' = "enter_alt" /\ UNCHANGED <<io_err, exit_status>>
    /\ UNCHANGED <<cli_lines, cli_start, args_lines, args_start, debug_build,
                   total_lines, bad_line, scroll, height, frame, last_event,
                   res, alt_screen, prev_jump, hl_vars>>

EnterAlt ==
    /\ pc = "enter_alt"
    /\ \/ MainFault("EnterAlternateScreen") /\ UNCHANGED alt_screen
       \/ alt_screen' = TRUE /\ pc' = "new_terminal" /\ UNCHANGED <<io_err, exit_status>>
    /\ UNCHANGED <<cli_lines, cli_start, args_lines, args_start, debug_build,
                   total_lines, bad_line, scroll, height, frame, last_event,
                   res, raw_mode, prev_jump, hl_vars>>

NewTerminal ==
    /\ pc = "new_terminal"
    /\ \/ MainFault("Terminal::new")
       \/ pc' = "run_app" /\ UNCHANGED <<io_err, exit_status>>
    /\ UNCHANGED <<cli_lines, cli_start, args_lines, args_start, debug_build,
                   total_lines, bad_line, scroll, height, frame, last_event,
                   res, raw_mode, alt_screen, prev_jump, hl_vars>>

\* ---------------------------------------------------------------- run_app
\* run_app's parameters are main's parsed arguments.
fixed_height == args_lines
start_line == args_start

\* (mutant) the 1-based start line taken as a 0-based index
InitialScroll_ZeroBased(start) == unwrap_or(start, 1)
InitialScroll(start) == saturating_sub(unwrap_or(start, 1), 1)

RunAppEntry ==
    /\ pc = "run_app"
    /\ scroll' = InitialScroll(start_line)
    /\ pc' = "draw"
    /\ UNCHANGED <<cli_lines, cli_start, args_lines, args_start, debug_build,
                   total_lines, bad_line, height, frame, last_event, res,
                   io_err, raw_mode, alt_screen, exit_status, prev_jump, hl_vars>>

\* size.height.saturating_sub(2) as usize
available_height(h) == Max(h - 2, 0)
\* fixed_height.unwrap_or(available_height).min(available_height)
visible_lines(fixed, h) == Min(unwrap_or(fixed, available_height(h)), available_height(h))

\* (mutant) the clamp without its else branch
ClampScroll_NoUpperBound(s, total, visible) == IF total <= visible THEN 0 ELSE s
\* The clamp of lines 263-267.
ClampScroll(s, total, visible) ==
    IF total <= visible THEN 0 ELSE Min(s, total - visible)

\* file_lines.iter().skip(scroll).take(visible_lines): the indexes drawn.
Window(s, total, visible) == {i \in 0..(total - 1) : s <= i /\ i < s + visible}

\* The rows the paragraph has for text: the layout gives the status line one
\* row and the paragraph the other h - 1, and the block's top and bottom
\* border take two of those.
inner_height(h) == Max(h - 3, 0)
\* The content lines that get a row: the paragraph draws its lines from the
\* top of the block's inner area and drops those that do not fit.
Shown(s, total, visible, h) == {i \in Window(s, total, visible) : i < s + inner_height(h)}

\* The frame the closure composes at terminal height h with scroll s (clamped);
\* is_first tells the first frame of the run from the later ones.
ComposeFrame(s, total, fixed, h, first_frame) ==
    LET visible == visible_lines(fixed, h) IN
    [ is_first |-> first_frame,
      height |-> h,
      visible_lines |-> visible,
      top |-> s,
      lines |-> Window(s, total, visible),
      shown |-> Shown(s, total, visible, h),
      first |-> s + 1,
      last |-> Min(s + visible, total),
      of |-> total,
      track |-> saturating_sub(total, visible),
      thumb |-> s ]

\* run_app returns: main goes on to its teardown with the result.
Return(result) ==
    /\ res' = result
    /\ pc' = "disable_raw"
    /\ UNCHANGED <<exit_status, prev_jump>>

\* A panic unwinds out of run_app and main: the process ends there.
Panic == Exit("panic") /\ UNCHANGED <<res, prev_jump>>

\* terminal.draw(|frame| ..)?: the closure clamps scroll, highlights the
\* lines of the window and composes the frame.
Draw ==
    /\ pc = "draw"
    /\ LET visible == visible_lines(fixed_height, height)
           clamped == ClampScroll(scroll, total_lines, visible)
       IN
       \/ \* the draw fails before or after the closure ran
          /\ scroll' \in {scroll, clamped}
          /\ io_err' = "draw"
          /\ Return("err")
          /\ UNCHANGED frame
       \/ /\ scroll' = clamped
          /\ IF \E i \in Window(clamped, total_lines, visible) :
                    highlight_line(file_line(bad_line, i)).panic
             THEN Panic /\ UNCHANGED <<frame, io_err>>
             ELSE /\ frame' = Some(ComposeFrame(clamped, total_lines, fixed_height, height, frame = None))
                  /\ pc' = "read_event"
                  /\ UNCHANGED <<res, io_err, exit_status, prev_jump>>
    /\ last_event' = "none"   \* the event of the iteration before is gone
    /\ UNCHANGED <<cli_lines, cli_start, args_lines, args_start, debug_build,
                   total_lines, bad_line, height, raw_mode, alt_screen, hl_vars>>

\* The rest of an input step: everything but scroll and the outcome.
InputFrame(ev) ==
    /\ pc = "read_event"
    /\ last_event' = ev
    /\ UNCHANGED <<cli_lines, cli_start, args_lines, args_start, debug_build,
                   total_lines, bad_line, height, frame, raw_mode, alt_screen,
                   hl_vars>>
\* The loop goes on to its next iteration after handling ev (scroll' is set).
Continue(ev) ==
    /\ pc' = "draw"
    /\ prev_jump' =
          IF ev \in {"g", "G"}
          THEN Some([key |-> ev, scroll |-> scroll', height |-> height,
                     count |-> IF prev_jump # None /\ prev_jump[1].key = ev THEN 2 ELSE 1])
          ELSE None
    /\ UNCHANGED <<res, io_err, exit_status>>

\* (mutant) a failed read is swallowed and the read is tried again
ReadFault_Retried ==
    /\ InputFrame("none")
    /\ io_err' = "read"
    /\ pc' = "read_event"
    /\ UNCHANGED <<scroll, res, exit_status, prev_jump>>
\* event::read()? returns an error.
ReadFault ==
    /\ InputFrame("none")
    /\ io_err' = "read"
    /\ Return("err")
    /\ UNCHANGED scroll

\* (mutant) the line step without its bound
LineDownScroll_Unbounded(s, total) == s + 1

\* The events the input step does nothing with.
IgnoredEvents == {"non_key", "release", "x"}

\* (mutant) an ignored event goes straight back to the read, with no render
Ignored_NoRender ==
    \E ev \in IgnoredEvents :
        /\ InputFrame(ev)
        /\ pc' = "read_event"
        /\ prev_jump' = None
        /\ UNCHANGED <<scroll, res, io_err, exit_status>>
\* (mutant) a key release is handled like the press of the Down key
Ignored_ReleaseHandled ==
    \E ev \in IgnoredEvents :
        /\ InputFrame(ev)
        /\ scroll' = LineDownScroll_Unbounded(scroll, total_lines)
        /\ Continue(ev)
\* A non-key event, a key event that is no press, a key outside the table.
Ignored ==
    \E ev \in IgnoredEvents :
        /\ InputFrame(ev)
        /\ UNCHANGED scroll
        /\ Continue(ev)

Quit ==
    \E ev \in {"q", "Esc"} :
        /\ InputFrame(ev)
        /\ Return("ok")
        /\ UNCHANGED <<scroll, io_err>>

LineDownScroll(s, total) == IF s < saturating_sub(total, 1) THEN s + 1 ELSE s
LineDown ==
    \E ev \in {"j", "Down"} :
        /\ InputFrame(ev)
        /\ scroll' = LineDownScroll(scroll, total_lines)
        /\ Continue(ev)

LineUp ==
    \E ev \in {"k", "Up"} :
        /\ InputFrame(ev)
        /\ scroll' = saturating_sub(scroll, 1)
        /\ Continue(ev)

\* fixed_height.unwrap_or(terminal.size()?.height as usize - 2): the argument
\* of unwrap_or is evaluated first, whatever fixed_height is.  The outcomes
\* of that evaluation at terminal height h: "fault" (size() failed), "panic"
\* (the subtraction overflowed in a build that checks it), or the page size.
PageSizes(fixed, h, checked) ==
    {[how |-> "fault", size |-> 0]} \cup
    (IF h < 2 /\ checked
     THEN {[how |-> "panic", size |-> 0]}
     ELSE {[how |-> "ok", size |-> unwrap_or(fixed, wrapping_sub(h, 2))]})

PageDownScroll(s, total, visible) == Min(saturating_add(s, visible), saturating_sub(total, 1))
PageUpScroll(s, total, visible) == saturating_sub(s, visible)
\* (mutant) G written as a page down from the current scroll
JumpBottomScroll_AsPageDown(s, total, visible) == PageDownScroll(s, total, visible)
JumpBottomScroll(s, total, visible) == saturating_sub(total, visible)

\* The three arms that query the terminal size.
Paged(ev, v) ==
    /\ InputFrame(ev)
    /\ IF v.how = "fault" THEN io_err' = "size" /\ Return("err") /\ UNCHANGED scroll
       ELSE IF v.how = "panic" THEN Panic /\ UNCHANGED <<scroll, io_err>>
       ELSE /\ scroll' = (CASE ev = "PageDown" -> PageDownScroll(scroll, total_lines, v.size)
                            [] ev = "PageUp" -> PageUpScroll(scroll, total_lines, v.size)
                            [] ev = "G" -> JumpBottomScroll(scroll, total_lines, v.size))
            /\ Continue(ev)

PageDown == \E v \in PageSizes(fixed_height, height, debug_build) : Paged("PageDown", v)
PageUp == \E v \in PageSizes(fixed_height, height, debug_build) : Paged("PageUp", v)
JumpBottom == \E v \in PageSizes(fixed_height, height, debug_build) : Paged("G", v)

JumpTop ==
    /\ InputFrame("g")
    /\ scroll' = 0
    /\ Continue("g")

\* The terminal is resized while the loop runs.
Resize ==
    /\ pc \in {"draw", "read_event"}
    /\ height' \in Heights \ {height}
    /\ prev_jump' = None
    /\ UNCHANGED <<pc, cli_lines, cli_start, args_lines, args_start, debug_build,
                   total_lines, bad_line, scroll, frame, last_event, res,
                   io_err, raw_mode, alt_screen, exit_status, hl_vars>>

\* ---------------------------------------------------------- main, teardown
DisableRaw ==
    /\ pc = "disable_raw"
    /\ \/ MainFault("disable_raw_mode") /\ UNCHANGED raw_mode
       \/ raw_mode' = FALSE /\ pc' = "leave_alt" /\ UNCHANGED <<io_err, exit_status>>
    /\ UNCHANGED <<cli_lines, cli_start, args_lines, args_start, debug_build,
                   total_lines, bad_line, scroll, height, frame, last_event,
                   res, alt_screen, prev_jump, hl_vars>>

\* LeaveAlternateScreen, then main returns res.
LeaveAlt ==
    /\ pc = "leave_alt"
    /\ \/ MainFault("LeaveAlternateScreen") /\ UNCHANGED alt_screen
       \/ alt_screen' = FALSE /\ Exit(res) /\ UNCHANGED io_err
    /\ UNCHANGED <<cli_lines, cli_start, args_lines, args_start, debug_build,
                   total_lines, bad_line, scroll, height, frame, last_event,
                   res, raw_mode, prev_jump, hl_vars>>

Init ==
    /\ HlIdle
    /\ pc = "parse"
    /\ cli_lines \in CliLines
    /\ cli_start \in CliStart
    /\ args_lines = None /\ args_start = None
    /\ debug_build \in BOOLEAN
    /\ total_lines = 0 /\ bad_line = None
    /\ scroll = 0
    /\ height \in Heights
    /\ frame = None
    /\ last_event = "none"
    /\ res = "none"
    /\ io_err = "none"
    /\ raw_mode = FALSE /\ alt_screen = FALSE
    /\ exit_status = "running"
    /\ prev_jump = None

Next ==
    \/ Parse \/ ReadFile \/ EnableRaw \/ EnterAlt \/ NewTerminal \/ RunAppEntry
    \/ Draw \/ ReadFault \/ Ignored \/ Quit \/ LineDown \/ LineUp
    \/ PageDown \/ PageUp \/ JumpBottom \/ JumpTop \/ Resize
    \/ DisableRaw \/ LeaveAlt

Spec == Init /\ [][Next]_vars

\* ------------------------------------------------------ highlighter claims
RECURSIVE ConcatSpans(_)
ConcatSpans(spans) ==
    IF spans = <<>> THEN <<>> ELSE Head(spans).text \o ConcatSpans(Tail(spans))

\* The char indexes (0-based) at which //, /* or # begins, read off the line.
MarkerAt(line, p) ==
    \/ line[p + 1] = "#"
    \/ p + 2 <= Len(line) /\ line[p + 1] = "/" /\ line[p + 2] \in {"/", "*"}
Markers(line) == {p \in 0..(Len(line) - 1) : MarkerAt(line, p)}
FirstMarker(line) == CHOOSE p \in Markers(line) : \A q \in Markers(line) : p <= q

\* C2: the texts of the spans highlight_line returns, concatenated in order,
\* are the line itself.
C2_SpanCoverage == hl_pc = "done" => ConcatSpans(hl_spans) = hl_line

\* C3: highlight_line is total: no input line makes it panic.
C3_Total == hl_pc # "panic"

\* C4: when the line holds a comment marker, the result is the spans of the
\* text before the first marker, tokenised as a line of its own, followed by
\* exactly one comment-styled span holding everything from that marker on.
C4_CommentPrecedence ==
    (hl_pc = "done" /\ Markers(hl_line) # {}) =>
        LET p == FirstMarker(hl_line) IN
        hl_spans = highlight_line(SubSeq(hl_line, 1, p)).spans
                   \o <<Span(SubSeq(hl_line, p + 1, Len(hl_line)), CommentStyle)>>

\* ------------------------------------------------------- viewport claims
InLoop == pc \in {"draw", "read_event"}
\* The height available to content and the visible height at terminal height
\* h, as the specification states them.
AvailableAt(h) == IF h - 2 > 0 THEN h - 2 ELSE 0
VisibleAt(fixed, h) ==
    IF fixed = None THEN AvailableAt(h)
    ELSE IF fixed[1] < AvailableAt(h) THEN fixed[1] ELSE AvailableAt(h)
MaxScrollAt(fixed, h) ==
    IF total_lines - VisibleAt(fixed, h) > 0 THEN total_lines - VisibleAt(fixed, h) ELSE 0

\* C1: after every per-frame clamp step (the state in which the frame has
\* just been drawn), 0 <= scroll <= max(0, total_lines - visible_lines) for
\* the visible_lines of that frame's terminal height, and scroll is 0 when
\* the whole file fits.
C1_ScrollClamped ==
    pc = "read_event" =>
        /\ frame # None
        /\ 0 <= scroll
        /\ scroll <= MaxScrollAt(fixed_height, frame[1].height)
        /\ (total_lines <= VisibleAt(fixed_height, frame[1].height) => scroll = 0)
\* The clamp has acted: the start line asked for lay past the last full window.
C1_Witness ==
    /\ pc = "read_event"
    /\ frame # None /\ frame[1].visible_lines > 0
    /\ total_lines > frame[1].visible_lines
    /\ InitialScroll(start_line) > scroll
    /\ scroll = total_lines - frame[1].visible_lines

\* C5: a press of G sets scroll to max(total_lines - visible_lines, 0), with
\* visible_lines the value the render step uses at this terminal height
\* (stated for the terminals that show at least one line).
C5_JumpBottom ==
    [][(pc = "read_event" /\ last_event' = "G" /\ pc' = "draw"
          /\ VisibleAt(fixed_height, height) > 0)
         => scroll' = MaxScrollAt(fixed_height, height)]_vars

\* C6: the first frame has line N of --start-line N at its top (scroll = N - 1,
\* N = 0 as N = 1) and line 1 when the option is absent; stated for the lines
\* the file has.
WantedTop == IF cli_start = None \/ cli_start = Some(0) THEN 0 ELSE cli_start[1] - 1
C7_NoLinesNoFixedHeight ==
    frame # None =>
        frame[1].visible_lines =
            (IF cli_lines = None THEN AvailableAt(frame[1].height)
             ELSE Min(cli_lines[1], AvailableAt(frame[1].height)))
\* C7, amended: without --lines the fixed height is the option's default, 70:
\* visible_lines = min(N, available_height) with N = 70 when it is absent.
C7_DefaultFixedHeight ==
    frame # None =>
        frame[1].visible_lines =
            Min(IF cli_lines = None THEN DefaultLines ELSE cli_lines[1],
                AvailableAt(frame[1].height))
\* A frame drawn without --lines on a terminal taller than the default.
C7_Witness ==
    /\ frame # None /\ cli_lines = None
    /\ AvailableAt(frame[1].height) > DefaultLines
    /\ frame[1].visible_lines = DefaultLines

\* C8: the loop ends only by a press of q or Escape, with success, or by an
\* error of the terminal collaborator, with that error.
C8_LoopExits ==
    /\ exit_status # "panic"
    /\ pc = "disable_raw" =>
          \/ res = "ok" /\ last_event \in {"q", "Esc"}
          \/ res = "err" /\ io_err \in {"draw", "read", "size"}

\* C9: once draw, the event read or a size query has returned an error,
\* run_app has returned that error: the loop is left, and from then on no
\* frame is drawn, no event is read and the loop is not entered again.
LoopFault == io_err \in {"draw", "read", "size"}
C9_FaultReturned ==
    /\ [](LoopFault => (~InLoop /\ res = "err"))
    /\ [][LoopFault => (frame' = frame /\ last_event' = last_event /\ ~InLoop')]_vars
\* A size query made for G failed and run_app returned the error.
C9_Witness ==
    /\ io_err = "size" /\ last_event = "G"
    /\ pc = "disable_raw" /\ res = "err"

\* C10: the process never ends with the terminal in raw mode or showing the
\* alternate screen.
C10_TerminalRestored == pc = "exit" => (~raw_mode /\ ~alt_screen)

\* An input step that handles a press of one of the keys.
Pressed(keys) == pc = "read_event" /\ last_event' \in keys

\* C11: from any scroll reachable after a clamp step, j / Down gives
\* min(scroll + 1, total_lines - 1) and k / Up gives max(scroll - 1, 0).
C11_LineStep ==
    [][/\ Pressed({"j", "Down"}) => scroll' = Min(scroll + 1, total_lines - 1)
       /\ Pressed({"k", "Up"}) => scroll' = Max(scroll - 1, 0)]_vars
\* C11, amended: that holds from any scroll <= total_lines - 1, which is every
\* scroll left by a clamp step that had visible_lines >= 1; a clamp step with
\* visible_lines = 0 can leave scroll = total_lines, and j / Down never
\* lowers scroll.  k / Up gives max(scroll - 1, 0) from any scroll.
C11_LineStepFromValid ==
    [][/\ Pressed({"j", "Down"}) =>
             /\ frame[1].visible_lines >= 1 => scroll <= total_lines - 1
             /\ scroll <= total_lines - 1 =>
                   (scroll' = Min(scroll + 1, total_lines - 1) /\ scroll' <= total_lines - 1)
             /\ scroll > total_lines - 1 => scroll' = scroll
       /\ Pressed({"k", "Up"}) => (scroll' = Max(scroll - 1, 0) /\ scroll' >= 0)]_vars
\* j was pressed on the last line and left scroll where it was.
C11_Witness ==
    /\ pc = "draw" /\ last_event = "j"
    /\ frame[1].visible_lines >= 1
    /\ frame[1].top = total_lines - 1 /\ frame[1].top > 0
    /\ scroll = total_lines - 1

\* C12: g sets scroll to 0 from any state; a second press in a row of g or of
\* G, with the frame of the first press drawn between them and the terminal
\* size unchanged, leaves the scroll the first press left, and the frame
\* drawn after it has the same top line as the frame drawn after the first.
SecondJump == prev_jump # None /\ prev_jump[1].count = 2
C12_JumpIdempotent ==
    [][/\ Pressed({"g"}) => scroll' = 0
       /\ (Pressed({"g", "G"}) /\ SecondJump') => scroll' = prev_jump[1].scroll
       /\ (pc = "draw" /\ pc' = "read_event" /\ SecondJump) =>
             frame'[1].top = frame[1].top]_vars
\* G was pressed twice in a row and the frame after the second press shows a
\* window below the top of the file.
C12_Witness ==
    /\ pc = "read_event" /\ SecondJump /\ prev_jump[1].key = "G"
    /\ scroll > 0 /\ frame[1].lines # {}

\* C13: when the file read yields zero lines main returns success at once:
\* raw mode is never enabled, the alternate screen never entered, run_app
\* never called; so the loop only runs with total_lines >= 1.
FileWasRead == pc \notin {"parse", "read_file"} /\ io_err # "read_file"
C13_EmptyFile ==
    /\ (FileWasRead /\ total_lines = 0) =>
          /\ pc = "exit" /\ exit_status = "ok"
          /\ ~raw_mode /\ ~alt_screen
          /\ frame = None /\ res = "none" /\ io_err = "none"
    /\ (pc = "run_app" \/ InLoop) => total_lines >= 1
\* The process has ended on an empty file.
C13_Witness ==
    /\ pc = "exit" /\ FileWasRead /\ total_lines = 0 /\ exit_status = "ok"

\* The style of the first class a word matches, in the order keyword,
\* built-in type, floating-point number, default.
FirstClassStyle(word) ==
    IF is_keyword(word) THEN [fg |-> DRACULA_PURPLE, bold |-> TRUE, italic |-> FALSE]
    ELSE IF is_type(word) THEN [fg |-> DRACULA_CYAN, bold |-> FALSE, italic |-> FALSE]
    ELSE IF parses_f64(word) THEN [fg |-> DRACULA_ORANGE, bold |-> FALSE, italic |-> FALSE]
    ELSE [fg |-> DRACULA_FG, bold |-> FALSE, italic |-> FALSE]
\* The longest run of alphanumerics and underscores of line from index i on.
RECURSIVE WordFrom(_, _)
WordFrom(line, i) ==
    IF i < Len(line) /\ (is_alphanumeric(line[i + 1]) \/ line[i + 1] = "_")
    THEN <<line[i + 1]>> \o WordFrom(line, i + 1)
    ELSE <<>>

\* C14: every word the scan produces is one span, styled as the first class
\* it matches in the order keyword, type, number, default.
C14_WordPrecedence ==
    [][(hl_pc = "scan" /\ ~IsCommentStart(hl_line, hl_i)
          /\ IsWordStart(hl_line[hl_i + 1])) =>
         LET word == WordFrom(hl_line, hl_i) IN
         /\ hl_spans' = Append(hl_spans, [text |-> word, style |-> FirstClassStyle(word)])
         /\ hl_i' = hl_i + Len(word)]_vars
\* "fn" has been scanned as a keyword.
C14_Witness ==
    /\ hl_pc = "done" /\ hl_line = <<"f", "n">>
    /\ hl_spans = <<[text |-> <<"f", "n">>,
                     style |-> [fg |-> DRACULA_PURPLE, bold |-> TRUE, italic |-> FALSE]]>>

\* C15: at every terminal height the Page Down, Page Up and G handlers
\* compute their page size without an overflow: none of them panics.
C15_PageSizeNoUnderflow ==
    [][Pressed({"PageDown", "PageUp", "G"}) => exit_status' # "panic"]_vars

\* C16: render and input steps strictly alternate, starting with a render: a
\* read is reached only from a render that clamped scroll and composed a
\* frame, and an input step (an ignored event too) leads to a render or out
\* of the loop, never straight to another read.
C16_Alternation ==
    /\ [](pc = "read_event" => frame # None /\ last_event = "none")
    /\ [][/\ (pc = "run_app" /\ pc' # pc => pc' = "draw" /\ frame' = None)
          /\ (pc = "draw" /\ pc' # pc => pc' \in {"read_event", "disable_raw", "exit"})
          /\ (pc' = "read_event" /\ pc # "read_event" =>
                /\ pc = "draw"
                /\ scroll' = ClampScroll(scroll, total_lines, VisibleAt(fixed_height, height))
                /\ frame' # None /\ frame'[1].top = scroll')
          /\ (pc = "read_event" /\ height' = height =>
                pc' \in {"draw", "disable_raw", "exit"})
          /\ (Pressed(IgnoredEvents) => pc' = "draw")]_vars
\* an ignored event was read after a second or later frame, a render is next
C16_Witness ==
    /\ pc = "draw" /\ last_event \in IgnoredEvents
    /\ frame # None /\ ~frame[1].is_first /\ frame[1].visible_lines >= 1

\* C17: an ignored event leaves scroll unchanged and does not end the loop,
\* and the render that follows it at the terminal size of the frame before
\* leaves scroll unchanged too; the clamp applied twice is the clamp applied
\* once.
C17_IgnoredKeepsScroll ==
    /\ [](pc \in {"draw", "read_event"} =>
            \A h \in Heights :
                LET v == VisibleAt(fixed_height, h)
                    once == ClampScroll(scroll, total_lines, v)
                IN  ClampScroll(once, total_lines, v) = once)
    /\ [][/\ (Pressed(IgnoredEvents) =>
                scroll' = scroll /\ pc' = "draw" /\ exit_status' = "running" /\ res' = res)
          /\ (/\ pc = "draw" /\ last_event \in IgnoredEvents
              /\ pc' = "read_event" /\ height = frame[1].height
              => scroll' = scroll)]_vars
\* an ignored event was read at a scroll above 0, the size is the frame's
C17_Witness ==
    /\ pc = "draw" /\ last_event \in IgnoredEvents
    /\ scroll > 0 /\ height = frame[1].height
    /\ frame[1].visible_lines >= 1 /\ frame[1].top = scroll

\* C18: Page Down and Page Up never skip lines that were not displayed: the
\* frame drawn after Page Down at an unchanged terminal size starts at most
\* visible_lines below the frame before, the one after Page Up at most
\* visible_lines above it (stated for frames of at least one row).
C18_PageNeverSkips ==
    [][/\ pc = "draw" /\ last_event \in {"PageDown", "PageUp"}
       /\ pc' = "read_event" /\ height = frame[1].height
       /\ frame[1].visible_lines >= 1
       => IF last_event = "PageDown"
          THEN frame'[1].top <= frame[1].top + frame[1].visible_lines
          ELSE frame'[1].top >= frame[1].top - frame[1].visible_lines]_vars

\* C19: in every rendered frame the status line's range is well-formed,
\* 1 <= first <= last <= total_lines, and the document lines drawn in the
\* frame are exactly lines first..last.
C19_StatusRange ==
    frame # None =>
        LET f == frame[1] IN
        /\ 1 <= f.first /\ f.first <= f.last /\ f.last <= f.of
        /\ f.shown = (f.first - 1)..(f.last - 1)

\* C20: in every rendered frame the number of document lines drawn equals
\* min(visible_lines, total_lines).
C20_LinesDrawn ==
    frame # None =>
        Cardinality(frame[1].shown) = Min(frame[1].visible_lines, frame[1].of)

====
